---- MODULE Spec2Model ----
(***************************************************************************)
(* State-machine model of the copy-on-write virtual memory simulator       *)
(* (sce213-pa4-2020s/pa4.c) and of the blocking mutex                      *)
(* (sce213-pa3-2020s/pa3.c).                                               *)
(***************************************************************************)
EXTENDS Integers, Sequences, FiniteSets, TLC

(***************************************************************************)
(* Sizes.  The program takes NR_PTES_PER_PAGE and NR_PAGEFRAMES from vm.h; *)
(* the model runs with scaled-down values.                                 *)
(***************************************************************************)
NR_PTES_PER_PAGE == 2
NR_PAGEFRAMES == 2
\* pids passed to switch_process are 0..MaxPid
MaxPid == 1
\* number of struct process objects that ever exist (init + forked)
MaxProcs == 3
\* number of calls in a run
MaxSteps == 5
\* threads that use the mutex, and threads that use the ring buffer
NrThreads == 3
\* init_ringbuffer is called with nr_slots in 1..MaxSlots
MaxSlots == 3
\* each of enqueue_into_ringbuffer and dequeue_from_ringbuffer is called at
\* most MaxValues times in a run; the values enqueued are 1..MaxValues, in turn
MaxValues == 3

\* access flags as the code spells them (rw == 2 || rw == 3; rw == 1)
RW_READ == 1
RW_WRITE == 2

\* content of a malloc'ed field that the code never wrote
Uninit == -1

Outer == 0 .. (NR_PTES_PER_PAGE - 1)
Inner == 0 .. (NR_PTES_PER_PAGE - 1)
Frames == 0 .. (NR_PAGEFRAMES - 1)
Pids == 0 .. MaxPid
\* the vpns the operations are called with: one under each of two directories
Vpns == {0, NR_PTES_PER_PAGE}

VARIABLES
    mapcounts,   \* [Frames -> Int]: unsigned int, kept as its two's complement
    procs,       \* the struct process objects, by handle 1..Len(procs)
    processes,   \* the ready list: sequence of handles
    current,     \* handle of the running process
    ptbr,        \* handle of the process whose pagetable ptbr points to
    fault,       \* "none", or the undefined behaviour that ended the run
    last,        \* the last call and what it returned
    steps,       \* calls made so far
    junk,        \* TRUE once a read of never-written memory yielded a nonzero value
    mtx,         \* struct mutex: key, spinlock.held, waitqueue
    pc,          \* per thread: the line of pa3.c it is at, "out" or "cs"
    temp,        \* per thread: release_mutex's local temp (0: not set)
    pending,     \* threads with a blocked SIGINT pending
    slept,       \* per thread: its current acquire_mutex found the mutex held
    handed,      \* per thread: a release_mutex signalled it since it called acquire_mutex
    ringbuffer,  \* struct ringbuffer: nr_slots, slots, in, out and the three mutexes
    rpc,         \* per thread: the line of the ring buffer functions it is at
    rval,        \* per thread: enqueue's parameter value, dequeue's local data
    rpend,       \* threads with a blocked SIGINT pending
    enqueued,    \* the values written to slots, in the order of the writes
    dequeued,    \* the values read from slots, in the order of the reads
    misuse       \* "none", or the first wrong access to a slot or waitqueue

vmvars == <<mapcounts, procs, processes, current, ptbr, fault, last, steps, junk>>
mxvars == <<mtx, pc, temp, pending, slept, handed>>
rbvars == <<ringbuffer, rpc, rval, rpend, enqueued, dequeued, misuse>>
vars == <<mapcounts, procs, processes, current, ptbr, fault, last, steps, junk,
          mtx, pc, temp, pending, slept, handed,
          ringbuffer, rpc, rval, rpend, enqueued, dequeued, misuse>>

(***************************************************************************)
(* struct pte {valid, writable, pfn, private}.  ro is a history field, not *)
(* part of the struct: TRUE when the mapping was installed by alloc_page   *)
(* without write permission, or copied by fork from such a mapping.        *)
(***************************************************************************)
ZeroPTE == [valid |-> 0, writable |-> 0, pfn |-> 0, private |-> 0, ro |-> FALSE]

\* a pte inside a block malloc returned: nothing written yet
UninitPTE == [valid |-> Uninit, writable |-> Uninit, pfn |-> Uninit,
              private |-> Uninit, ro |-> FALSE]

\* an outer_ptes[] slot: NULL, a pte_directory, an unwritten pointer
\* ("uninit"), or a pointer that is neither NULL nor a directory ("wild")
NullSlot == [st |-> "null", ptes |-> [j \in Inner |-> ZeroPTE]]
UninitSlot == [st |-> "uninit", ptes |-> [j \in Inner |-> ZeroPTE]]
WildSlot == [st |-> "wild", ptes |-> [j \in Inner |-> ZeroPTE]]
MallocDirectory == [st |-> "dir", ptes |-> [j \in Inner |-> UninitPTE]]

(***************************************************************************)
(* Reads.  A field the code never wrote is indeterminate: a read of it     *)
(* yields some value of its type.  NR_PAGEFRAMES stands for every pfn      *)
(* outside the frame table, 2 for every private value other than 0 and 1.  *)
(* A run is followed through the first call in which such a read yields    *)
(* something other than 0 (junk), and not beyond that call.                *)
(***************************************************************************)
BoolVals(v) == IF v = Uninit THEN {0, 1} ELSE {v}
PfnVals(v) == IF v = Uninit THEN Frames \cup {NR_PAGEFRAMES} ELSE {v}
PrivVals(v) == IF v = Uninit THEN {0, 1, 2} ELSE {v}
Zero(v) == IF v = Uninit THEN 0 ELSE v

\* what the reads of a pte yield; of an invalid pte only valid is used
InvalidRead == [valid |-> 0, writable |-> 0, pfn |-> 0, private |-> 0]
AllReads(p) ==
    (IF 0 \in BoolVals(p.valid) THEN {InvalidRead} ELSE {})
    \cup (IF 1 \in BoolVals(p.valid)
          THEN {[valid |-> 1, writable |-> w, pfn |-> f, private |-> x] :
                  w \in BoolVals(p.writable), f \in PfnVals(p.pfn),
                  x \in PrivVals(p.private)}
          ELSE {})
ZeroRead(p) ==
    IF Zero(p.valid) = 0 THEN InvalidRead
    ELSE [valid |-> 1, writable |-> Zero(p.writable), pfn |-> Zero(p.pfn),
          private |-> Zero(p.private)]
ReadPTE(p) == AllReads(p)
IsJunk(p, q) == q # ZeroRead(p)

\* what testing an outer_ptes[] pointer yields
ReadSlot(s) == IF s.st = "uninit" THEN {NullSlot, WildSlot} ELSE {s}

\* unsigned comparison on a mapcount kept as two's complement
UGt1(c) == c > 1 \/ c < 0

outer_index(vpn) == vpn \div NR_PTES_PER_PAGE
inner_index(vpn) == vpn % NR_PTES_PER_PAGE

\* a scan that stops at the last frame with mapcount 0 instead of the first
FirstFreeLast(mc) ==
    IF \E f \in Frames : mc[f] = 0
    THEN CHOOSE f \in Frames : mc[f] = 0 /\ \A g \in Frames : g > f => mc[g] # 0
    ELSE NR_PAGEFRAMES
\* the loop of alloc_page, lines 72-74: the first frame with mapcount 0,
\* NR_PAGEFRAMES if there is none
FirstFree(mc) ==
    IF \E f \in Frames : mc[f] = 0
    THEN CHOOSE f \in Frames : mc[f] = 0 /\ \A g \in Frames : g < f => mc[g] # 0
    ELSE NR_PAGEFRAMES

Call(op, arg, rw, ret) == [op |-> op, arg |-> arg, rw |-> rw, ret |-> ret]

\* the pagetable ptbr points to
PT == procs[ptbr].pagetable
SetPTE(pr, i, j, p) == [pr EXCEPT ![ptbr].pagetable[i].ptes[j] = p]

\* a call returns ret, leaving mapcounts mc and the process table pr
Returns(call, mc, pr, cost) ==
    /\ mapcounts' = mc
    /\ procs' = pr
    /\ last' = call
    /\ steps' = steps + 1
    /\ junk' = cost
    /\ UNCHANGED fault

\* a call ends the run in undefined behaviour
Halt(why, call, cost) ==
    /\ fault' = why
    /\ last' = call
    /\ steps' = steps + 1
    /\ junk' = cost
    /\ UNCHANGED <<mapcounts, procs>>

Running == fault = "none" /\ ~junk /\ steps < MaxSteps

(***************************************************************************)
(* alloc_page(vpn, rw) run on mapcounts mc and process table pr, s being   *)
(* what the test of outer_ptes[outer_index] at line 82 yields: the outcome *)
(* [mc, pr, ret, ub].  ret = -1: all frames allocated.  ub # "none": the   *)
(* stores went through a pointer that is no directory.  Used by the        *)
(* alloc_page action and by handle_page_fault's COW break.                 *)
(***************************************************************************)
AllocPage(mc, pr, vpn, rw, s) ==
    LET ppn == FirstFree(mc)
        oi == outer_index(vpn)
        ii == inner_index(vpn)
        d == IF s.st = "null" THEN MallocDirectory ELSE s
        q == [d.ptes[ii] EXCEPT !.valid = 1, !.pfn = ppn,
                  !.writable = IF rw = 2 \/ rw = 3 THEN 1 ELSE @,
                  !.ro = ~(rw = 2 \/ rw = 3)]
    IN  IF ppn >= NR_PAGEFRAMES
        THEN [mc |-> mc, pr |-> pr, ret |-> -1, ub |-> "none"]
        ELSE IF s.st = "wild"
        THEN [mc |-> mc, pr |-> pr, ret |-> -1, ub |-> "wild_deref"]
        ELSE [mc |-> [mc EXCEPT ![ppn] = @ + 1],
              pr |-> [pr EXCEPT ![ptbr].pagetable[oi] = [d EXCEPT !.ptes[ii] = q]],
              ret |-> ppn, ub |-> "none"]

alloc_page(vpn, rw) ==
    /\ Running
    /\ \E s \in ReadSlot(PT[outer_index(vpn)]) :
         \E o \in {AllocPage(mapcounts, procs, vpn, rw, s)} :
         LET call == Call("alloc_page", vpn, rw, o.ret)
         IN  IF o.ub # "none"
             THEN Halt(o.ub, call, TRUE)
             ELSE Returns(call, o.mc, o.pr, FALSE)
    /\ UNCHANGED <<processes, current, ptbr>>
    /\ UNCHANGED <<mxvars, rbvars>>

(***************************************************************************)
(* free_page(vpn).  The directory pointer is dereferenced unchecked; the   *)
(* pte is cleared whatever it held (private is left as it was) and the     *)
(* mapcount of the pfn it held is decremented.                             *)
(***************************************************************************)
\* lines 118-120: the three fields free_page stores
FreedPTE(p) == [p EXCEPT !.valid = 0, !.writable = 0, !.pfn = 0, !.ro = FALSE]

free_page(vpn) ==
    LET oi == outer_index(vpn)
        ii == inner_index(vpn)
        call == Call("free_page", vpn, 0, 0)
    IN  /\ Running
        /\ \E s \in ReadSlot(PT[oi]) :
             IF s.st = "null" THEN Halt("null_deref", call, FALSE)
             ELSE IF s.st = "wild" THEN Halt("wild_deref", call, TRUE)
             ELSE \E ppn \in PfnVals(s.ptes[ii].pfn) :
                    LET cost == ppn # Zero(s.ptes[ii].pfn)
                    IN  IF ppn >= NR_PAGEFRAMES THEN Halt("oob_index", call, cost)
                        ELSE Returns(call, [mapcounts EXCEPT ![ppn] = @ - 1],
                                     SetPTE(procs, oi, ii, FreedPTE(s.ptes[ii])), cost)
        /\ UNCHANGED <<processes, current, ptbr>>
        /\ UNCHANGED <<mxvars, rbvars>>

(***************************************************************************)
(* handle_page_fault(vpn, rw).  Returns 1 (true) or 0 (false).  Line 148   *)
(* loads the pfn through outer_ptes[outer_index] before line 149 tests the *)
(* pointer for NULL: with a NULL pointer the load either traps or, when    *)
(* the compiler sinks it below the test, the function returns false.  A    *)
(* call that takes none of the four branches runs off the end of the       *)
(* function and its caller reads an arbitrary value.                       *)
(***************************************************************************)
\* a last-sharer branch that leaves the pte as it is
LastSharerNoop(p) == p
\* the last-sharer branch, line 162
LastSharer(p) == [p EXCEPT !.writable = 1]

\* a break that takes a fresh frame without giving up the share
CowBreakKeepShare(vpn, q) ==
    AllocPage(mapcounts, procs, vpn, RW_WRITE, PT[outer_index(vpn)])
\* lines 157-158: the share is given up, then alloc_page(vpn, RW_WRITE),
\* whose result is not looked at
CowBreak(vpn, q) ==
    AllocPage([mapcounts EXCEPT ![q.pfn] = @ - 1], procs, vpn, RW_WRITE,
              PT[outer_index(vpn)])

\* lines 149-172, the directory being present and q what the reads of the
\* pte yield
FaultOnPTE(vpn, rw, q, cost) ==
    LET oi == outer_index(vpn)
        ii == inner_index(vpn)
        op == "handle_page_fault"
    IN  IF q.valid = 0
        THEN Returns(Call(op, vpn, rw, 0), mapcounts, procs, cost)
        ELSE IF rw = RW_WRITE /\ q.writable = 0 /\ q.private = 0
        THEN Returns(Call(op, vpn, rw, 0), mapcounts, procs, cost)
        ELSE IF q.private = 1 /\ q.pfn >= NR_PAGEFRAMES
        THEN Halt("oob_index", Call(op, vpn, rw, 0), cost)
        ELSE IF q.private = 1 /\ UGt1(mapcounts[q.pfn])
        THEN \E o \in {CowBreak(vpn, q)} : Returns(Call(op, vpn, rw, 1), o.mc, o.pr, cost)
        ELSE IF q.private = 1 /\ mapcounts[q.pfn] = 1
        THEN Returns(Call(op, vpn, rw, 1), mapcounts,
                     SetPTE(procs, oi, ii, LastSharer(PT[oi].ptes[ii])), cost)
        ELSE \E ret \in {0, 1} : Returns(Call(op, vpn, rw, ret), mapcounts, procs, cost)

handle_page_fault(vpn, rw) ==
    LET oi == outer_index(vpn)
        ii == inner_index(vpn)
        op == "handle_page_fault"
    IN  /\ Running
        /\ \E s \in ReadSlot(PT[oi]) :
             IF s.st = "null"
             THEN \/ Halt("null_deref", Call(op, vpn, rw, 0), FALSE)
                  \/ Returns(Call(op, vpn, rw, 0), mapcounts, procs, FALSE)
             ELSE IF s.st = "wild"
             THEN Halt("wild_deref", Call(op, vpn, rw, 0), TRUE)
             ELSE \E q \in ReadPTE(s.ptes[ii]) :
                    FaultOnPTE(vpn, rw, q, IsJunk(s.ptes[ii], q))
        /\ UNCHANGED <<processes, current, ptbr>>
        /\ UNCHANGED <<mxvars, rbvars>>

(***************************************************************************)
(* switch_process(pid)                                                     *)
(***************************************************************************)
\* what the fork loop reads in the parent's page table: every never-written
\* field as 0, or one pte or pointer of them as something else
ZeroTable(pt) ==
    [i \in Outer |->
        IF pt[i].st = "dir"
        THEN [st |-> "dir", ptes |-> [j \in Inner |-> ZeroRead(pt[i].ptes[j])]]
        ELSE [st |-> IF pt[i].st = "uninit" THEN "null" ELSE pt[i].st,
              ptes |-> [j \in Inner |-> InvalidRead]]]
\* the loop uses writable and private only in the test of line 225: of the
\* reads that differ only there, one that passes it and one that fails it
ForkReads(p) == {q \in AllReads(p) : q.private \in {0, 1} /\ (q.writable = 0 \/ q.private = 0)}
\* the one thing read as junk: <<i, j, q>> pte j of directory i read as q,
\* <<i, -1, _>> pointer i read as wild, <<-1, -1, _>> nothing
JunkChoices(pt) ==
    {<<-1, -1, InvalidRead>>}
    \cup {<<i, -1, InvalidRead>> : i \in {k \in Outer : pt[k].st = "uninit"}}
    \cup UNION {{<<ij[1], ij[2], q>> :
                    q \in ForkReads(pt[ij[1]].ptes[ij[2]]) \ {ZeroRead(pt[ij[1]].ptes[ij[2]])}} :
                 ij \in {x \in Outer \X Inner : pt[x[1]].st = "dir"}}

\* lines 225-229: a valid pte that is writable or already private
CowEligible(q) == q.writable # 0 \/ q.private = 1

\* the parent's pte p after the loop body, lines 224-229, q being what the
\* reads of it yield
ParentPTE(p, q) ==
    IF q.valid = 1 /\ CowEligible(q)
    THEN [p EXCEPT !.writable = 0, !.private = 1]
    ELSE p

\* the child's pte after the loop body, lines 224-233, in a directory that
\* malloc returned: writable is never stored, private only for a COW page
ChildPTE(p, q) ==
    IF q.valid = 1
    THEN [UninitPTE EXCEPT !.valid = 1, !.pfn = q.pfn, !.ro = p.ro,
                           !.private = IF CowEligible(q) THEN 1 ELSE @]
    ELSE UninitPTE

\* the <<i, j>> of the ptes that the loop read as valid
ValidIn(rp) == {ij \in Outer \X Inner :
                  rp[ij[1]].st = "dir" /\ rp[ij[1]].ptes[ij[2]].valid = 1}

\* a search that keeps the last process with this pid instead of the first
FindLast(pid) ==
    LET hits == {k \in 1 .. Len(processes) : procs[processes[k]].pid = pid}
    IN  IF hits = {} THEN 0 ELSE CHOOSE k \in hits : \A m \in hits : m <= k
\* lines 199-207: the position in the ready list of the first process with
\* this pid, 0 if there is none
Find(pid) ==
    LET hits == {k \in 1 .. Len(processes) : procs[processes[k]].pid = pid}
    IN  IF hits = {} THEN 0 ELSE CHOOSE k \in hits : \A m \in hits : k <= m

\* list_del_init of the k-th entry
ListDel(q, k) == [m \in 1 .. (Len(q) - 1) |-> IF m < k THEN q[m] ELSE q[m + 1]]

\* lines 209-215
SwitchTo(pid, k) ==
    /\ processes' = ListDel(Append(processes, current), k)
    /\ current' = processes[k]
    /\ ptbr' = processes[k]
    /\ Returns(Call("switch_process", pid, 0, 0), mapcounts, procs, FALSE)

\* lines 216-246 run on what the loop read, rp: [ub, mc, pr]
ForkOutcome(pid, rp) ==
    LET v == ValidIn(rp)
        parent == [i \in Outer |->
                     IF rp[i].st = "dir"
                     THEN [PT[i] EXCEPT !.ptes =
                             [j \in Inner |-> ParentPTE(PT[i].ptes[j], rp[i].ptes[j])]]
                     ELSE PT[i]]
        child == [i \in Outer |->
                     IF rp[i].st = "dir"
                     THEN [st |-> "dir", ptes |->
                             [j \in Inner |-> ChildPTE(PT[i].ptes[j], rp[i].ptes[j])]]
                     ELSE UninitSlot]
    IN  IF \E ij \in v : rp[ij[1]].ptes[ij[2]].pfn >= NR_PAGEFRAMES
        THEN [ub |-> "oob_index", mc |-> mapcounts, pr |-> procs]
        ELSE [ub |-> "none",
              mc |-> [f \in Frames |-> mapcounts[f] + Cardinality(
                        {ij \in v : rp[ij[1]].ptes[ij[2]].pfn = f})],
              pr |-> Append([procs EXCEPT ![ptbr].pagetable = parent],
                            [pid |-> pid, pagetable |-> child])]

\* the outcome when everything is read as in outcome o (never-written
\* fields as 0) but for junk choice c: the loop body, lines 224-233, runs
\* on pte c[2] of directory c[1] with the reads c[3], or line 221 finds the
\* never-written pointer c[1] not NULL
ForkWithJunk(o, c) ==
    LET i == c[1]
        j == c[2]
        q == c[3]
        p == PT[i].ptes[j]
        z == ZeroRead(p)
        mc0 == IF z.valid = 1 THEN [o.mc EXCEPT ![z.pfn] = @ - 1] ELSE o.mc
    IN  IF i = -1 THEN o
        ELSE IF j = -1 THEN [o EXCEPT !.ub = "wild_deref"]
        ELSE IF q.pfn >= NR_PAGEFRAMES THEN [o EXCEPT !.ub = "oob_index"]
        ELSE [ub |-> o.ub,
              mc |-> [mc0 EXCEPT ![q.pfn] = @ + 1],
              pr |-> [o.pr EXCEPT ![ptbr].pagetable[i].ptes[j] = ParentPTE(p, q),
                                  ![Len(procs) + 1].pagetable[i].ptes[j] = ChildPTE(p, q)]]

\* the call is recorded with ret = 1 when it forked
Fork(pid) ==
    LET call == Call("switch_process", pid, 0, 1)
    IN  /\ Len(procs) < MaxProcs
        /\ \E z \in {ForkOutcome(pid, ZeroTable(PT))} :
             \E c \in JunkChoices(PT) : \E o \in {ForkWithJunk(z, c)} :
                 IF o.ub # "none"
                 THEN /\ Halt(o.ub, call, c[1] # -1)
                      /\ UNCHANGED <<processes, current, ptbr>>
                 ELSE /\ Returns(call, o.mc, o.pr, c[1] # -1)
                      /\ processes' = Append(processes, current)
                      /\ current' = Len(procs) + 1
                      /\ ptbr' = Len(procs) + 1

switch_process(pid) ==
    /\ Running
    /\ IF Find(pid) # 0 THEN SwitchTo(pid, Find(pid)) ELSE Fork(pid)
    /\ UNCHANGED <<mxvars, rbvars>>

(***************************************************************************)
(* The simulator at start: the init process (pid 0) runs on an empty page  *)
(* table, the ready list is empty and every frame is free.                 *)
(***************************************************************************)
InitVM ==
    /\ mapcounts = [f \in Frames |-> 0]
    /\ procs = <<[pid |-> 0, pagetable |-> [i \in Outer |-> NullSlot]]>>
    /\ processes = <<>>
    /\ current = 1
    /\ ptbr = 1
    /\ fault = "none"
    /\ last = Call("start", 0, 0, 0)
    /\ steps = 0
    /\ junk = FALSE

(***************************************************************************)
(* The blocking mutex of pa3.c, one step per access to the shared struct.  *)
(* Each thread calls acquire_mutex, then release_mutex, again and again.   *)
(* pc[t] is the line thread t is about to run; "out": in neither function  *)
(* and not holding the mutex; "cs": returned from acquire_mutex and not    *)
(* yet in release_mutex.  SIGINT reaches a thread from release_mutex only. *)
(***************************************************************************)
Threads == 1 .. NrThreads

\* init_mutex, lines 110-116
init_mutex == [key |-> 1, held |-> 0, waitqueue |-> <<>>]

\* a test that lets one thread too many through
AcquiredLoose(key) == key >= -1
\* the test of line 143 on the decremented key
Acquired(key) == key >= 0

\* the test of line 176 on the incremented key
NoWaiter(key) == key > 0

Goto(t, l) == pc' = [pc EXCEPT ![t] = l]

\* a thread enters acquire_mutex
acquire_mutex(t) ==
    /\ pc[t] = "out"
    /\ Goto(t, "l141")
    /\ slept' = [slept EXCEPT ![t] = FALSE]
    /\ handed' = [handed EXCEPT ![t] = FALSE]
    /\ UNCHANGED <<mtx, temp, pending>>

\* a compare_and_swap that swaps whatever it finds
CasAlways(held) == TRUE
\* line 64: compare_and_swap(&lock->held, 0, 1) finds 0 and stores 1
CasSucceeds(held) == held = 0

\* acquire_spinlock, line 64: the compare_and_swap that succeeds
acquire_spinlock(t) ==
    /\ pc[t] \in {"l141", "l175"}
    /\ CasSucceeds(mtx.held)
    /\ mtx' = [mtx EXCEPT !.held = 1]
    /\ Goto(t, IF pc[t] = "l141" THEN "l143" ELSE "l176")
    /\ UNCHANGED <<temp, pending, slept, handed>>

\* release_spinlock, line 79, called at lines 144, 156, 177 and 183
release_spinlock(t) ==
    /\ pc[t] \in {"l144", "l156", "l177", "l183"}
    /\ mtx' = [mtx EXCEPT !.held = 0]
    /\ Goto(t, IF pc[t] = "l144" THEN "cs"
                ELSE IF pc[t] = "l156" THEN "l157" ELSE "out")
    /\ UNCHANGED <<temp, pending, slept, handed>>

\* line 143: --mutex->key >= 0; lines 147-153 touch the thread's own state
DecrementKey(t) ==
    /\ pc[t] = "l143"
    /\ mtx' = [mtx EXCEPT !.key = @ - 1]
    /\ Goto(t, IF Acquired(mtx.key - 1) THEN "l144" ELSE "l155")
    /\ slept' = [slept EXCEPT ![t] = ~Acquired(mtx.key - 1)]
    /\ UNCHANGED <<temp, pending, handed>>

\* line 155
list_add_tail(t) ==
    /\ pc[t] = "l155"
    /\ mtx' = [mtx EXCEPT !.waitqueue = Append(@, t)]
    /\ Goto(t, "l156")
    /\ UNCHANGED <<temp, pending, slept, handed>>

\* line 157: returns once a SIGINT is pending, and consumes it
sigwaitinfo(t) ==
    /\ pc[t] = "l157"
    /\ t \in pending
    /\ pending' = pending \ {t}
    /\ Goto(t, "cs")
    /\ UNCHANGED <<mtx, temp, slept, handed>>

\* the holder enters release_mutex
release_mutex(t) ==
    /\ pc[t] = "cs"
    /\ Goto(t, "l175")
    /\ UNCHANGED <<mtx, temp, pending, slept, handed>>

\* line 176: ++mutex->key > 0
IncrementKey(t) ==
    /\ pc[t] = "l176"
    /\ mtx' = [mtx EXCEPT !.key = @ + 1]
    /\ Goto(t, IF NoWaiter(mtx.key + 1) THEN "l177" ELSE "l180")
    /\ UNCHANGED <<temp, pending, slept, handed>>

\* lines 180-181; list_first_entry of an empty list is no thread ("wild")
list_del(t) ==
    /\ pc[t] = "l180"
    /\ IF mtx.waitqueue = <<>>
       THEN /\ Goto(t, "wild")
            /\ UNCHANGED <<mtx, temp>>
       ELSE /\ temp' = [temp EXCEPT ![t] = Head(mtx.waitqueue)]
            /\ mtx' = [mtx EXCEPT !.waitqueue = Tail(@)]
            /\ Goto(t, "l182")
    /\ UNCHANGED <<pending, slept, handed>>

\* line 182
pthread_kill(t) ==
    /\ pc[t] = "l182"
    /\ pending' = pending \cup {temp[t]}
    /\ handed' = [handed EXCEPT ![temp[t]] = TRUE]
    /\ Goto(t, "l183")
    /\ UNCHANGED <<mtx, temp, slept>>

InitMX ==
    /\ mtx = init_mutex
    /\ pc = [t \in Threads |-> "out"]
    /\ temp = [t \in Threads |-> 0]
    /\ pending = {}
    /\ slept = [t \in Threads |-> FALSE]
    /\ handed = [t \in Threads |-> FALSE]

(***************************************************************************)
(* The ring buffer of pa3.c.  Its three mutexes are used as counters: a    *)
(* mutex is the pair of its key and its waitqueue.  The part of            *)
(* acquire_mutex and of release_mutex that runs inside the mutex's         *)
(* spinlock is one step: those parts exclude each other and touch nothing  *)
(* but that mutex and the signal sent.  Once init_ringbuffer has run, a    *)
(* thread is a producer or a consumer: it calls one of the two functions   *)
(* again and again.                                                        *)
(***************************************************************************)
Mutex(key) == [key |-> key, waitqueue |-> <<>>]

\* lines 205-208: the static struct before init_ringbuffer
StaticRingbuffer ==
    [nr_slots |-> 0, slots |-> <<>>, in |-> 0, out |-> 0,
     mutex |-> Mutex(0), empty |-> Mutex(0), full |-> Mutex(0)]

\* a slot: the value in it and whether it was written and not yet read;
\* malloc'ed slots hold nothing written
EmptySlot == [val |-> Uninit, unread |-> FALSE]

\* a counter of free slots that starts at nr_slots + 1
FullKeyOver(nr_slots) == nr_slots + 1
\* line 294
FullKey(nr_slots) == nr_slots - 1

\* lines 284-296; the slots are numbered 0..nr_slots-1
init_ringbuffer(nr_slots) ==
    /\ ringbuffer = StaticRingbuffer
    /\ ringbuffer' = [nr_slots |-> nr_slots,
                      slots |-> [k \in 0 .. (nr_slots - 1) |-> EmptySlot],
                      in |-> 0, out |-> 0,
                      mutex |-> Mutex(1), empty |-> Mutex(0),
                      full |-> Mutex(FullKey(nr_slots))]
    /\ rpc' = [t \in Threads |-> "idle"]
    /\ UNCHANGED <<rval, rpend, enqueued, dequeued, misuse>>

RGoto(t, l) == rpc' = [rpc EXCEPT ![t] = l]

\* the mutex a thread at line l passes to acquire_mutex or release_mutex
MutexAt(l) ==
    IF l \in {"l219", "w219", "l258"} THEN "full"
    ELSE IF l \in {"l248", "w248", "l229"} THEN "empty"
    ELSE "mutex"

\* the line after a call returns
After(l) ==
    CASE l \in {"l219", "w219"} -> "l220"
      [] l \in {"l220", "w220"} -> "l222"
      [] l = "l228" -> "l229"
      [] l \in {"l248", "w248"} -> "l249"
      [] l \in {"l249", "w249"} -> "l252"
      [] l = "l257" -> "l258"
      [] l = "l229" -> "produced"
      [] OTHER -> "consumed"

\* the line at which a thread sleeps in the acquire_mutex called at line l
WaitAt(l) ==
    CASE l = "l219" -> "w219"
      [] l = "l220" -> "w220"
      [] l = "l248" -> "w248"
      [] OTHER -> "w249"

\* calls of enqueue_into_ringbuffer so far: those that wrote their slot and
\* those that have not yet
EnqueueCalls ==
    Len(enqueued)
    + Cardinality({u \in Threads : rpc[u] \in {"l219", "w219", "l220", "w220", "l222"}})

\* enqueue_into_ringbuffer(value) is called, line 216; the n-th call passes n
enqueue_into_ringbuffer(t) ==
    /\ rpc[t] \in {"idle", "produced"}
    /\ misuse = "none"
    /\ EnqueueCalls < MaxValues
    /\ rval' = [rval EXCEPT ![t] = EnqueueCalls + 1]
    /\ RGoto(t, "l219")
    /\ UNCHANGED <<ringbuffer, rpend, enqueued, dequeued, misuse>>

\* calls of dequeue_from_ringbuffer so far
DequeueCalls ==
    Len(dequeued)
    + Cardinality({u \in Threads : rpc[u] \in {"l248", "w248", "l249", "w249", "l252"}})

\* dequeue_from_ringbuffer() is called, line 244; data is not yet assigned
dequeue_from_ringbuffer(t) ==
    /\ rpc[t] \in {"idle", "consumed"}
    /\ misuse = "none"
    /\ DequeueCalls < MaxValues
    /\ rval' = [rval EXCEPT ![t] = 0]
    /\ RGoto(t, "l248")
    /\ UNCHANGED <<ringbuffer, rpend, enqueued, dequeued, misuse>>

\* acquire_mutex(&ringbuffer.m) inside m's spinlock, lines 141-156: the key
\* is decremented; a thread that does not get the mutex queues itself and
\* then waits for SIGINT at line 157
AcquireIn(t) ==
    /\ rpc[t] \in {"l219", "l220", "l248", "l249"}
    /\ misuse = "none"
    /\ LET m == MutexAt(rpc[t])
           k == ringbuffer[m].key - 1
       IN IF Acquired(k)
          THEN /\ ringbuffer' = [ringbuffer EXCEPT ![m].key = k]
               /\ RGoto(t, After(rpc[t]))
          ELSE /\ ringbuffer' = [ringbuffer EXCEPT ![m].key = k,
                                                   ![m].waitqueue = Append(@, t)]
               /\ RGoto(t, WaitAt(rpc[t]))
    /\ UNCHANGED <<rval, rpend, enqueued, dequeued, misuse>>

\* line 157: sigwaitinfo returns once a SIGINT is pending, and consumes it
WakeIn(t) ==
    /\ rpc[t] \in {"w219", "w220", "w248", "w249"}
    /\ misuse = "none"
    /\ t \in rpend
    /\ rpend' = rpend \ {t}
    /\ RGoto(t, After(rpc[t]))
    /\ UNCHANGED <<ringbuffer, rval, enqueued, dequeued, misuse>>

\* release_mutex(&ringbuffer.m) inside m's spinlock, lines 175-183: the key
\* is incremented; if a thread waits, the first one is unqueued and sent
\* SIGINT.  list_first_entry on an empty waitqueue is a wild pointer; a
\* SIGINT sent to a thread that has one pending is lost.  The
\* caller's locals end when the last release of the function returns.
ReleaseIn(t) ==
    /\ rpc[t] \in {"l228", "l229", "l257", "l258"}
    /\ misuse = "none"
    /\ LET m == MutexAt(rpc[t])
           k == ringbuffer[m].key + 1
           q == ringbuffer[m].waitqueue
       IN IF NoWaiter(k)
          THEN /\ ringbuffer' = [ringbuffer EXCEPT ![m].key = k]
               /\ UNCHANGED <<rpend, misuse>>
          ELSE IF q = <<>>
          THEN /\ ringbuffer' = [ringbuffer EXCEPT ![m].key = k]
               /\ misuse' = "wild_deref"
               /\ UNCHANGED rpend
          ELSE /\ ringbuffer' = [ringbuffer EXCEPT ![m].key = k,
                                                   ![m].waitqueue = Tail(q)]
               /\ rpend' = rpend \cup {Head(q)}
               /\ misuse' = IF Head(q) \in rpend THEN "lost_wakeup" ELSE misuse
    /\ RGoto(t, After(rpc[t]))
    /\ rval' = IF After(rpc[t]) \in {"produced", "consumed"} THEN [rval EXCEPT ![t] = 0] ELSE rval
    /\ UNCHANGED <<enqueued, dequeued>>

\* the index after i that never wraps
NextIndexNoWrap(i, nr_slots) == i + 1
\* lines 223-226 and 253-256: the index after i
NextIndex(i, nr_slots) == IF i + 1 >= nr_slots THEN 0 ELSE i + 1

\* line 222: slots[in] = value
StoreSlot(t) ==
    /\ rpc[t] = "l222"
    /\ misuse = "none"
    /\ LET i == ringbuffer.in
       IN IF i \notin DOMAIN ringbuffer.slots
          THEN /\ misuse' = "oob_index"
               /\ UNCHANGED <<ringbuffer, enqueued>>
          ELSE /\ misuse' = IF ringbuffer.slots[i].unread THEN "overwrite" ELSE "none"
               /\ ringbuffer' = [ringbuffer EXCEPT
                                    !.slots[i] = [val |-> rval[t], unread |-> TRUE]]
               /\ enqueued' = Append(enqueued, rval[t])
    /\ RGoto(t, "l223")
    /\ UNCHANGED <<rval, rpend, dequeued>>

\* lines 223-226: in advances
AdvanceIn(t) ==
    /\ rpc[t] = "l223"
    /\ misuse = "none"
    /\ ringbuffer' = [ringbuffer EXCEPT !.in = NextIndex(@, ringbuffer.nr_slots)]
    /\ RGoto(t, "l228")
    /\ UNCHANGED <<rval, rpend, enqueued, dequeued, misuse>>

\* line 252: data = slots[out]
LoadSlot(t) ==
    /\ rpc[t] = "l252"
    /\ misuse = "none"
    /\ LET i == ringbuffer.out
       IN IF i \notin DOMAIN ringbuffer.slots
          THEN /\ misuse' = "oob_index"
               /\ UNCHANGED <<ringbuffer, rval, dequeued>>
          ELSE /\ misuse' = IF ringbuffer.slots[i].unread THEN "none" ELSE "stale_read"
               /\ ringbuffer' = [ringbuffer EXCEPT !.slots[i].unread = FALSE]
               /\ rval' = [rval EXCEPT ![t] = ringbuffer.slots[i].val]
               /\ dequeued' = Append(dequeued, ringbuffer.slots[i].val)
    /\ RGoto(t, "l253")
    /\ UNCHANGED <<rpend, enqueued>>

\* lines 253-256: out advances
AdvanceOut(t) ==
    /\ rpc[t] = "l253"
    /\ misuse = "none"
    /\ ringbuffer' = [ringbuffer EXCEPT !.out = NextIndex(@, ringbuffer.nr_slots)]
    /\ RGoto(t, "l257")
    /\ UNCHANGED <<rval, rpend, enqueued, dequeued, misuse>>

\* before init_ringbuffer no thread is in the ring buffer's functions
InitRB ==
    /\ ringbuffer = StaticRingbuffer
    /\ rpc = [t \in Threads |-> "start"]
    /\ rval = [t \in Threads |-> 0]
    /\ rpend = {}
    /\ enqueued = <<>>
    /\ dequeued = <<>>
    /\ misuse = "none"

Init == InitVM /\ InitMX /\ InitRB

Next ==
    \/ \E vpn \in Vpns, rw \in {RW_READ, RW_WRITE} : alloc_page(vpn, rw)
    \/ \E vpn \in Vpns : free_page(vpn)
    \/ \E vpn \in Vpns, rw \in {RW_READ, RW_WRITE} : handle_page_fault(vpn, rw)
    \/ \E pid \in Pids : switch_process(pid)

Spec == Init /\ [][Next]_vars

NextMutex ==
    \/ \E t \in Threads : acquire_mutex(t) /\ UNCHANGED <<vmvars, rbvars>>
    \/ \E t \in Threads : acquire_spinlock(t) /\ UNCHANGED <<vmvars, rbvars>>
    \/ \E t \in Threads : DecrementKey(t) /\ UNCHANGED <<vmvars, rbvars>>
    \/ \E t \in Threads : release_spinlock(t) /\ UNCHANGED <<vmvars, rbvars>>
    \/ \E t \in Threads : list_add_tail(t) /\ UNCHANGED <<vmvars, rbvars>>
    \/ \E t \in Threads : sigwaitinfo(t) /\ UNCHANGED <<vmvars, rbvars>>
    \/ \E t \in Threads : release_mutex(t) /\ UNCHANGED <<vmvars, rbvars>>
    \/ \E t \in Threads : IncrementKey(t) /\ UNCHANGED <<vmvars, rbvars>>
    \/ \E t \in Threads : list_del(t) /\ UNCHANGED <<vmvars, rbvars>>
    \/ \E t \in Threads : pthread_kill(t) /\ UNCHANGED <<vmvars, rbvars>>

SpecMutex == Init /\ [][NextMutex]_vars

NextRing ==
    \/ \E n \in 1 .. MaxSlots : init_ringbuffer(n) /\ UNCHANGED <<vmvars, mxvars>>
    \/ \E t \in Threads : enqueue_into_ringbuffer(t) /\ UNCHANGED <<vmvars, mxvars>>
    \/ \E t \in Threads : dequeue_from_ringbuffer(t) /\ UNCHANGED <<vmvars, mxvars>>
    \/ \E t \in Threads : AcquireIn(t) /\ UNCHANGED <<vmvars, mxvars>>
    \/ \E t \in Threads : WakeIn(t) /\ UNCHANGED <<vmvars, mxvars>>
    \/ \E t \in Threads : ReleaseIn(t) /\ UNCHANGED <<vmvars, mxvars>>
    \/ \E t \in Threads : StoreSlot(t) /\ UNCHANGED <<vmvars, mxvars>>
    \/ \E t \in Threads : AdvanceIn(t) /\ UNCHANGED <<vmvars, mxvars>>
    \/ \E t \in Threads : LoadSlot(t) /\ UNCHANGED <<vmvars, mxvars>>
    \/ \E t \in Threads : AdvanceOut(t) /\ UNCHANGED <<vmvars, mxvars>>

SpecRing == Init /\ [][NextRing]_vars

\* The threads are pthreads: one that can take its next step takes it in the
\* end.  Producers keep enqueuing and consumers keep dequeuing while calls
\* are left.
RingFair ==
    \A t \in Threads :
        /\ WF_vars(enqueue_into_ringbuffer(t) /\ UNCHANGED <<vmvars, mxvars>>)
        /\ WF_vars(dequeue_from_ringbuffer(t) /\ UNCHANGED <<vmvars, mxvars>>)
        /\ WF_vars(AcquireIn(t) /\ UNCHANGED <<vmvars, mxvars>>)
        /\ WF_vars(WakeIn(t) /\ UNCHANGED <<vmvars, mxvars>>)
        /\ WF_vars(ReleaseIn(t) /\ UNCHANGED <<vmvars, mxvars>>)
        /\ WF_vars(StoreSlot(t) /\ UNCHANGED <<vmvars, mxvars>>)
        /\ WF_vars(AdvanceIn(t) /\ UNCHANGED <<vmvars, mxvars>>)
        /\ WF_vars(LoadSlot(t) /\ UNCHANGED <<vmvars, mxvars>>)
        /\ WF_vars(AdvanceOut(t) /\ UNCHANGED <<vmvars, mxvars>>)

SpecRingFair == SpecRing /\ RingFair

(***************************************************************************)
(* Properties.                                                             *)
(***************************************************************************)
Handles == 1 .. Len(procs)

\* process a maps vpn <<i, j>> to frame f in process table pr
Maps(pr, a, i, j, f) ==
    /\ pr[a].pagetable[i].st = "dir"
    /\ pr[a].pagetable[i].ptes[j].valid = 1
    /\ pr[a].pagetable[i].ptes[j].pfn = f

NrMappings(f) ==
    Cardinality({x \in Handles \X Outer \X Inner : Maps(procs, x[1], x[2], x[3], f)})

\* the step is a call of op that returned, no read of it having yielded junk
Returned(op) == last'.op = op /\ fault' = "none" /\ ~junk'

\* C1: in every reachable state the share count of every frame equals the
\* number of valid ptes, over all processes, that reference the frame.
ShareCountConservation == \A f \in Frames : mapcounts[f] = NrMappings(f)

\* C2: alloc_page returns the smallest frame whose share count is 0, and
\* returns -1 exactly when no frame has share count 0.
AllocReturnsSmallestFree ==
    [][(last'.op = "alloc_page" /\ fault' = "none") =>
         IF \A f \in Frames : mapcounts[f] # 0
         THEN last'.ret = -1
         ELSE /\ last'.ret \in Frames
              /\ mapcounts[last'.ret] = 0
              /\ \A g \in Frames : g < last'.ret => mapcounts[g] # 0]_vars

\* alloc_page found every frame taken, after it handed out the frames in order
AllocOutOfMemory ==
    /\ last.op = "alloc_page" /\ last.ret = -1 /\ fault = "none"
    /\ \A f \in Frames : mapcounts[f] = 1 /\ NrMappings(f) = 1

\* C3: no process holds a valid writable pte for a frame that a different
\* process maps at the same vpn: a write by one is never visible to another.
ForkIsolation ==
    \A a \in Handles, b \in Handles, i \in Outer, j \in Inner, f \in Frames :
        (a # b /\ Maps(procs, a, i, j, f) /\ Maps(procs, b, i, j, f))
            => procs[a].pagetable[i].ptes[j].writable # 1

\* C4: a fork gives the child a valid pte with the parent's pfn for every
\* vpn valid in the parent and raises that frame's share count by one; a
\* pte that was writable or COW is writable=0, private=1 in both; a
\* read-only non-COW pte becomes COW in neither.
ForkPostcondition ==
    [][(Returned("switch_process") /\ last'.ret = 1) =>
         \A i \in Outer, j \in Inner :
            (PT[i].st = "dir" /\ PT[i].ptes[j].valid = 1) =>
                LET p == PT[i].ptes[j]
                    pp == procs'[ptbr].pagetable[i].ptes[j]
                    cd == procs'[ptbr'].pagetable[i]
                IN  /\ cd.st = "dir"
                    /\ cd.ptes[j].valid = 1
                    /\ cd.ptes[j].pfn = p.pfn
                    /\ mapcounts'[p.pfn] = mapcounts[p.pfn] + 1
                    /\ IF p.writable = 1 \/ p.private = 1
                       THEN /\ pp.writable = 0 /\ pp.private = 1
                            /\ cd.ptes[j].writable = 0 /\ cd.ptes[j].private = 1
                       ELSE /\ pp = p
                            /\ cd.ptes[j].private # 1]_vars

\* the step is handle_page_fault(vpn, rw) on a valid COW pte of frame f
CowFault(vpn, f) ==
    /\ Returned("handle_page_fault")
    /\ last'.arg = vpn
    /\ Maps(procs, ptbr, outer_index(vpn), inner_index(vpn), f)
    /\ PT[outer_index(vpn)].ptes[inner_index(vpn)].private = 1

\* C5 as stated: when a COW break brings a frame's share count back to 1,
\* the sole remaining pte that references the frame is writable.
CowBreakMakesLastSharerWritable ==
    [][\A vpn \in Vpns, f \in Frames :
         (CowFault(vpn, f) /\ mapcounts[f] = 2 /\ mapcounts'[f] = 1) =>
            \A b \in Handles, i \in Outer, j \in Inner :
                Maps(procs', b, i, j, f) => procs'[b].pagetable[i].ptes[j].writable = 1]_vars

\* C5: a COW break changes no pte of any other process (the remaining
\* sharer stays writable=0, private=1); a fault on a COW pte whose frame has
\* share count 1 returns true and sets writable in that pte, changing no
\* pfn, no other pte and no share count.
CowLastSharerOnFault ==
    [][\A vpn \in Vpns, f \in Frames :
         CowFault(vpn, f) =>
            /\ UGt1(mapcounts[f]) =>
                  /\ last'.ret = 1
                  /\ \A b \in Handles \ {ptbr} : procs'[b] = procs[b]
            /\ mapcounts[f] = 1 =>
                  /\ last'.ret = 1
                  /\ mapcounts' = mapcounts
                  /\ procs' = [procs EXCEPT
                        ![ptbr].pagetable[outer_index(vpn)].ptes[inner_index(vpn)].writable = 1]]_vars

\* the parent, left as last sharer by the child's COW break, took a write
\* fault on the same vpn and got its pte made writable
ParentWritableAfterFault ==
    /\ last.op = "handle_page_fault" /\ last.ret = 1 /\ fault = "none" /\ ~junk
    /\ current = 1 /\ Len(procs) > 1
    /\ \E f \in Frames, g \in Frames :
         LET i == outer_index(last.arg)
             j == inner_index(last.arg)
         IN  /\ f # g
             /\ Maps(procs, 1, i, j, f) /\ Maps(procs, 2, i, j, g)
             /\ mapcounts[f] = 1 /\ mapcounts[g] = 1
             /\ procs[1].pagetable[i].ptes[j].private = 1
             /\ procs[1].pagetable[i].ptes[j].writable = 1
             /\ procs[2].pagetable[i].ptes[j].writable = 1

\* C6: handle_page_fault on a vpn whose directory is absent or whose pte is
\* invalid returns false, changes no pte and no share count, and does not
\* dereference an absent directory.
UnmappedFaultReturnsFalse ==
    [][(last'.op = "handle_page_fault"
        /\ LET s == PT[outer_index(last'.arg)]
           IN  s.st = "null" \/ (s.st = "dir" /\ s.ptes[inner_index(last'.arg)].valid = 0)) =>
         /\ fault' = "none"
         /\ last'.ret = 0
         /\ mapcounts' = mapcounts
         /\ procs' = procs]_vars

\* C7: a write fault on a valid, not writable pte whose mapping was
\* installed read-only returns false and leaves the pte not writable.
ReadOnlyWriteFaultRefused ==
    [][(Returned("handle_page_fault") /\ last'.rw = RW_WRITE) =>
         LET i == outer_index(last'.arg)
             j == inner_index(last'.arg)
         IN  (PT[i].st = "dir" /\ PT[i].ptes[j].valid = 1 /\ PT[i].ptes[j].ro
              /\ PT[i].ptes[j].writable = 0) =>
                /\ last'.ret = 0
                /\ procs'[ptbr].pagetable[i].ptes[j].writable = 0]_vars

\* C8: free_page on a valid vpn decrements the frame's share count by one,
\* leaves the pte all-zero (valid, writable, private, pfn), keeps the
\* directory and changes nothing else.
FreePageClearsPTE ==
    [][Returned("free_page") =>
         LET i == outer_index(last'.arg)
             j == inner_index(last'.arg)
         IN  (PT[i].st = "dir" /\ PT[i].ptes[j].valid = 1 /\ PT[i].ptes[j].pfn \in Frames) =>
                /\ mapcounts' = [mapcounts EXCEPT ![PT[i].ptes[j].pfn] = @ - 1]
                /\ procs' = [procs EXCEPT ![ptbr].pagetable[i].ptes[j] = ZeroPTE]]_vars

\* C9: switch_process(pid) with a process of that pid in the ready list
\* appends the current process to the list, removes the found process from
\* it and makes it current, points ptbr at its page table, and changes no
\* pte and no share count.
SwitchToFound ==
    [][(last'.op = "switch_process"
        /\ \E k \in 1 .. Len(processes) : procs[processes[k]].pid = last'.arg) =>
         LET k == CHOOSE k \in 1 .. Len(processes) :
                     /\ procs[processes[k]].pid = last'.arg
                     /\ \A m \in 1 .. (k - 1) : procs[processes[m]].pid # last'.arg
             Others(h) == h # processes[k]
         IN  /\ processes' = SelectSeq(processes, Others) \o <<current>>
             /\ current' = processes[k]
             /\ ptbr' = processes[k]
             /\ procs' = procs
             /\ mapcounts' = mapcounts
             /\ fault' = "none"]_vars

\* a switch took the first of two ready processes of the same pid: the
\* other one still waits, behind it the process that ran before, and the
\* frame they share is still counted once for each
SwitchedToFirstOfTwo ==
    /\ last.op = "switch_process" /\ last.ret = 0 /\ fault = "none"
    /\ ptbr = current
    /\ Len(processes) = 2
    /\ procs[processes[1]].pid = procs[current].pid
    /\ current < processes[1]
    /\ \E f \in Frames : mapcounts[f] = 3 /\ NrMappings(f) = 3

\* C10: at most one thread is between its return from acquire_mutex and its
\* call of release_mutex, and a thread that found the mutex held is there
\* only after a release_mutex signalled it.
MutexExclusion ==
    /\ Cardinality({t \in Threads : pc[t] = "cs"}) <= 1
    /\ \A t \in Threads : (pc[t] = "cs" /\ slept[t]) => handed[t]
    /\ \A t \in Threads : pc[t] # "wild"

\* a thread that slept holds the mutex, handed to it by a release, while
\* another thread waits in sigwaitinfo
HandedToSleeper ==
    \E t \in Threads, u \in Threads :
        /\ t # u
        /\ pc[t] = "cs" /\ slept[t] /\ handed[t]
        /\ pc[u] = "l157" /\ mtx.waitqueue = <<u>>

\* the lines a thread runs between its return from acquire_spinlock and its
\* call of release_spinlock
InSpinlock == {"l143", "l144", "l155", "l156", "l176", "l177", "l180", "l182", "l183"}
SpinHolders == {t \in Threads : pc[t] \in InSpinlock}

\* C11: at most one thread has returned from acquire_spinlock and not yet
\* called release_spinlock, and a thread returns from acquire_spinlock only
\* in a step that changes held from 0 to 1.
SpinlockExclusion ==
    /\ [](Cardinality(SpinHolders) <= 1 /\ (SpinHolders # {} => mtx.held = 1))
    /\ [][\A t \in Threads :
            (pc[t] \in {"l141", "l175"} /\ pc'[t] # pc[t]) =>
                (mtx.held = 0 /\ mtx'.held = 1 /\ pc'[t] \in InSpinlock)]_vars

\* one thread is inside the spinlock while two others spin on it, one in
\* acquire_mutex and the mutex holder in release_mutex
SpinlockContended ==
    \E t \in Threads, u \in Threads, w \in Threads :
        /\ pc[t] = "l155" /\ pc[u] = "l141" /\ pc[w] = "l175"
        /\ mtx.held = 1

\* the lowest-numbered frame with share count 0 in mc
LowestFree(mc) == CHOOSE g \in Frames : mc[g] = 0 /\ \A h \in Frames : h < g => mc[h] # 0

\* C12: a write fault on a valid COW pte whose frame has share count k > 1,
\* a frame being free, returns true, leaves the old frame at k - 1, maps the
\* pte valid and writable to the lowest free frame, now at count 1, and
\* leaves the other sharers' ptes on the old frame.
CowBreakWhileShared ==
    [][\A vpn \in Vpns, f \in Frames :
         (CowFault(vpn, f) /\ last'.rw = RW_WRITE /\ UGt1(mapcounts[f])
          /\ \E g \in Frames : mapcounts[g] = 0) =>
            LET g == LowestFree(mapcounts)
                q == procs'[ptbr].pagetable[outer_index(vpn)].ptes[inner_index(vpn)]
            IN  /\ last'.ret = 1
                /\ mapcounts' = [mapcounts EXCEPT ![f] = @ - 1, ![g] = 1]
                /\ q.valid = 1 /\ q.writable = 1 /\ q.pfn = g
                /\ \A b \in Handles \ {ptbr} : procs'[b] = procs[b]]_vars

\* the child's write fault moved it from the shared frame 0 to frame 1; the
\* parent still maps frame 0, read-only and COW
ChildBrokeCow ==
    /\ last.op = "handle_page_fault" /\ last.rw = RW_WRITE /\ last.ret = 1
    /\ fault = "none" /\ ~junk /\ current = 2
    /\ LET i == outer_index(last.arg)
           j == inner_index(last.arg)
       IN  /\ Maps(procs, 2, i, j, 1) /\ procs[2].pagetable[i].ptes[j].writable = 1
           /\ Maps(procs, 1, i, j, 0) /\ procs[1].pagetable[i].ptes[j].writable = 0
           /\ procs[1].pagetable[i].ptes[j].private = 1
    /\ mapcounts[0] = 1 /\ mapcounts[1] = 1

\* the step is a fork run by process b, or a free_page of <<i, j>> by it
ForkOrFreeBy(b, i, j) ==
    /\ ptbr = b
    /\ \/ last'.op = "switch_process" /\ last'.ret = 1
       \/ /\ last'.op = "free_page"
          /\ outer_index(last'.arg) = i /\ inner_index(last'.arg) = j

\* C13: a write fault on a valid COW pte whose frame has share count 1
\* returns true, sets writable in that pte and changes no pfn, no other pte
\* and no share count; the pte then stays valid and writable, so a write
\* does not fault on it, until its process forks (or frees the page).
LastSharerWriteFault ==
    [][/\ \A vpn \in Vpns, f \in Frames :
            (CowFault(vpn, f) /\ last'.rw = RW_WRITE /\ mapcounts[f] = 1) =>
                /\ last'.ret = 1
                /\ mapcounts' = mapcounts
                /\ procs' = [procs EXCEPT
                      ![ptbr].pagetable[outer_index(vpn)].ptes[inner_index(vpn)].writable = 1]
       /\ \A b \in Handles, i \in Outer, j \in Inner :
            (/\ procs[b].pagetable[i].st = "dir"
             /\ procs[b].pagetable[i].ptes[j].valid = 1
             /\ procs[b].pagetable[i].ptes[j].private = 1
             /\ procs[b].pagetable[i].ptes[j].writable = 1
             /\ ~ForkOrFreeBy(b, i, j)) =>
                /\ procs'[b].pagetable[i].ptes[j].valid = 1
                /\ procs'[b].pagetable[i].ptes[j].writable = 1]_vars

\* the child freed its share, and the parent, now the only sharer, took a
\* write fault that made its pte writable on the frame it already had
SoleOwnerWritable ==
    /\ last.op = "handle_page_fault" /\ last.rw = RW_WRITE /\ last.ret = 1
    /\ fault = "none" /\ ~junk /\ current = 1 /\ Len(procs) = 2
    /\ LET i == outer_index(last.arg)
           j == inner_index(last.arg)
       IN  /\ Maps(procs, 1, i, j, 0)
           /\ procs[1].pagetable[i].ptes[j].writable = 1
           /\ procs[1].pagetable[i].ptes[j].private = 1
           /\ procs[2].pagetable[i].st = "dir"
           /\ procs[2].pagetable[i].ptes[j].valid = 0
    /\ mapcounts[0] = 1 /\ NrMappings(0) = 1

\* C14: a fault that has to break COW (private = 1, share count above 1)
\* while no frame is free does not return true and leaves every share
\* count and every page table as it was.
CowBreakOutOfMemory ==
    [][\A vpn \in Vpns, f \in Frames :
         (CowFault(vpn, f) /\ UGt1(mapcounts[f])
          /\ \A g \in Frames : mapcounts[g] # 0) =>
            /\ last'.ret = 0
            /\ mapcounts' = mapcounts
            /\ procs' = procs]_vars

\* C15: handle_page_fault for a read of a valid pte (COW and shared or
\* not), or for a write to a valid writable pte that is not COW, returns
\* true and changes no pte and no share count.
UnclassifiedFaultIsNoop ==
    [][Returned("handle_page_fault") =>
         LET i == outer_index(last'.arg)
             j == inner_index(last'.arg)
         IN  (/\ PT[i].st = "dir"
              /\ PT[i].ptes[j].valid = 1
              /\ \/ last'.rw = RW_READ
                 \/ /\ last'.rw = RW_WRITE
                    /\ PT[i].ptes[j].writable = 1
                    /\ PT[i].ptes[j].private # 1) =>
                /\ last'.ret = 1
                /\ mapcounts' = mapcounts
                /\ procs' = procs]_vars

\* C16: no valid pte of any process has writable set and private (COW) set
\* while the frame it references has a share count above 1.
NoWritableCowShared ==
    \A b \in Handles, i \in Outer, j \in Inner, f \in Frames :
        (Maps(procs, b, i, j, f) /\ procs[b].pagetable[i].ptes[j].private = 1
         /\ UGt1(mapcounts[f])) =>
            1 \notin BoolVals(procs[b].pagetable[i].ptes[j].writable)

\* C17: a successful alloc_page(vpn, rw) leaves the pte of vpn valid, on
\* the returned frame, writable exactly when rw includes write, raises that
\* frame's share count from 0 to 1 and changes no other pte and no other
\* share count; a failing alloc_page changes nothing.
AllocPageEffect ==
    [][(last'.op = "alloc_page" /\ fault' = "none") =>
         LET i == outer_index(last'.arg)
             j == inner_index(last'.arg)
             q == procs'[ptbr].pagetable[i].ptes[j]
         IN  IF last'.ret = -1
             THEN mapcounts' = mapcounts /\ procs' = procs
             ELSE /\ procs'[ptbr].pagetable[i].st = "dir"
                  /\ q.valid = 1
                  /\ q.pfn = last'.ret
                  /\ q.writable = (IF last'.rw = RW_WRITE THEN 1 ELSE 0)
                  /\ mapcounts[last'.ret] = 0
                  /\ mapcounts' = [mapcounts EXCEPT ![last'.ret] = 1]
                  /\ \A b \in Handles \ {ptbr} : procs'[b] = procs[b]
                  /\ \A k \in Outer, m \in Inner :
                        (<<k, m>> # <<i, j>> /\ PT[k].st = "dir") =>
                            procs'[ptbr].pagetable[k].ptes[m] = PT[k].ptes[m]]_vars

\* C18: free_page on a vpn whose directory is absent or whose pte is
\* invalid ends without undefined behaviour and changes no share count and
\* no pte; no share count is ever decremented below zero.
FreeInvalidRefused ==
    /\ [](\A f \in Frames : mapcounts[f] >= 0)
    /\ [][(last'.op = "free_page"
           /\ LET s == PT[outer_index(last'.arg)]
              IN  s.st = "null"
                  \/ (s.st = "dir" /\ s.ptes[inner_index(last'.arg)].valid = 0)) =>
            /\ fault' = "none"
            /\ mapcounts' = mapcounts
            /\ procs' = procs]_vars

\* C19: all processes, the current one and those in the ready list, have
\* pairwise distinct pids, and the current process is not in the ready list.
PidsDistinct ==
    /\ \A a \in Handles, b \in Handles : a # b => procs[a].pid # procs[b].pid
    /\ \A k \in 1 .. Len(processes) : processes[k] # current

\* the values stored in the ring buffer: written and not yet read
Stored == Len(enqueued) - Len(dequeued)

\* C20: with any number of threads calling enqueue_into_ringbuffer and
\* dequeue_from_ringbuffer, in every interleaving the number of stored values
\* stays between 0 and nr_slots, no slot is overwritten before its value was
\* dequeued, no dequeue reads a slot that holds no unread value, and the
\* values dequeued are the values enqueued, each once and in the order in
\* which the enqueues wrote their slots.
RingbufferIntegrity ==
    /\ Stored >= 0
    /\ Stored <= ringbuffer.nr_slots
    /\ misuse = "none"
    /\ dequeued = SubSeq(enqueued, 1, Len(dequeued))
    /\ \A i, j \in 1 .. Len(enqueued) : enqueued[i] = enqueued[j] => i = j

\* the ring buffer wrapped around: more values went through it than it has
\* slots, so a slot was written again, and all of them came out in order
RingbufferWrapped ==
    /\ ringbuffer.nr_slots > 1
    /\ Len(dequeued) > ringbuffer.nr_slots
    /\ dequeued = enqueued
    /\ \A t \in Threads : rpc[t] \in {"idle", "produced", "consumed"}

\* a thread that called enqueue_into_ringbuffer, one that called
\* dequeue_from_ringbuffer
Producer(t) == rpc[t] \in {"l219", "w219", "l220", "w220", "l222", "l223", "l228", "l229", "produced"}
Consumer(t) == rpc[t] \in {"l248", "w248", "l249", "w249", "l252", "l253", "l257", "l258", "consumed"}

\* a thread asleep in sigwaitinfo with no SIGINT pending
Blocked(t) == rpc[t] \in {"w219", "w220", "w248", "w249"} /\ t \notin rpend

\* a thread inside enqueue_into_ringbuffer or dequeue_from_ringbuffer
InCall(t) == rpc[t] \notin {"start", "idle", "produced", "consumed"}

\* with a producer and a consumer, not all threads are blocked
NeverAllBlocked ==
    ~ /\ \E t \in Threads : Producer(t)
      /\ \E t \in Threads : Consumer(t)
      /\ \A t \in Threads : Blocked(t)

\* with a consumer, a call of enqueue_into_ringbuffer returns
EnqueueReturns(slots) ==
    \A t \in Threads :
        (/\ ringbuffer.nr_slots \in slots
         /\ Producer(t) /\ InCall(t)
         /\ \E c \in Threads : Consumer(c))
            ~> ~InCall(t)

\* with a producer, a call of dequeue_from_ringbuffer returns
DequeueReturns(slots) ==
    \A t \in Threads :
        (/\ ringbuffer.nr_slots \in slots
         /\ Consumer(t) /\ InCall(t)
         /\ \E p \in Threads : Producer(p))
            ~> ~InCall(t)

\* no SIGINT was sent to a thread that had one pending, and a thread with
\* one pending is in acquire_mutex, at sigwaitinfo, where it consumes it
WakeupKept ==
    /\ misuse # "lost_wakeup"
    /\ \A t \in rpend : rpc[t] \in {"w219", "w220", "w248", "w249"}

\* C21: for a ring buffer initialised with any nr_slots >= 1, under fair
\* scheduling with at least one producer and one consumer, every call of
\* enqueue_into_ringbuffer returns in the end, every call of
\* dequeue_from_ringbuffer returns in the end, no wake-up sent by
\* release_mutex is lost, and no reachable state has all threads blocked.
RingbufferProgress ==
    /\ EnqueueReturns(1 .. MaxSlots)
    /\ DequeueReturns(1 .. MaxSlots)
    /\ []WakeupKept
    /\ []NeverAllBlocked

\* the same for a ring buffer of two slots or more
RingbufferProgressSpareSlot ==
    /\ EnqueueReturns(2 .. MaxSlots)
    /\ DequeueReturns(2 .. MaxSlots)
    /\ []WakeupKept
    /\ [](ringbuffer.nr_slots # 1 => NeverAllBlocked)

\* a ring buffer of one slot with every thread asleep
OneSlotAllBlocked ==
    /\ ringbuffer.nr_slots = 1
    /\ ~NeverAllBlocked
====
